---- MODULE Spec2Model ----
(***************************************************************************)
(* A model of the casa-wonders data layer (src/src/lib/api.ts): the        *)
(* listing query (getListings: filter, paginate), and the booking          *)
(* operations of the single in-memory mock user (createBooking,            *)
(* getBookings, cancelBooking), each an async function that awaits a       *)
(* fixed delay and then runs its body in one step.                         *)
(*                                                                         *)
(* Representation.  An optional value (a field that may be undefined) is   *)
(* a set with at most one element: {} is undefined, {v} is the value v.    *)
(* Prices are whole dirhams, ratings are tenths of a star (45 = 4.5),      *)
(* coordinates are 1e-4 degrees (335892 = 33.5892), distances are metres.  *)
(* The clock counts milliseconds since the page was loaded.                *)
(***************************************************************************)
EXTENDS Integers, Sequences, FiniteSets

VARIABLES
  mockListings,   \* the catalog (mockData.mockListings)
  mockUser,       \* the single user (mockData.mockUser): wishlist, bookings, preferences
  now,            \* the millisecond clock, Date.now()
  inflight,       \* data-layer calls awaiting their delay, in the order their timers fire
  response,       \* what the call that has just resolved returned to its caller
  qFilters,       \* the paging reader: the filters argument of its getListings calls
  qLimit,         \* the paging reader: the limit argument
  qPage,          \* the paging reader: pages 1..qPage have been read in order
  qAcc,           \* the paging reader: their data, concatenated
  qResp,          \* the paging reader: the last PaginatedResponse
  modal,          \* the booking wizard (BookingModal): isOpen, step, isLoading, form
  profile,        \* the profile page: user, bookings, isLoading, and its load
  explore         \* the explore page: listings, filters, searchQuery, page, flags

vars == <<mockListings, mockUser, now, inflight, response,
          qFilters, qLimit, qPage, qAcc, qResp, modal, profile, explore>>

storeVars == <<mockUser, now, inflight, response>>
queryVars == <<qFilters, qLimit, qPage, qAcc, qResp>>
pageVars == <<modal, profile, explore>>

(***************************************************************************)
(* Bounds of the model.                                                    *)
(***************************************************************************)
MaxLimit == 4          \* the reader's limits are 1..MaxLimit and the default
MaxPage == 15          \* pages 1..MaxPage are requested
MaxBookings == 2       \* createBooking is issued at most this many times
MaxInFlight == 2       \* calls awaiting their delay at one time
MaxTime == 1500        \* the clock stops here
MaxParticipants == 2   \* the wizard's + button stops here
MaxModalTime == 6000   \* the clock of a run of the booking wizard stops here
MaxExploreTime == 2400 \* the clock of a run of the explore page stops here

(***************************************************************************)
(* Optional values and JavaScript truthiness.                              *)
(***************************************************************************)
Undefined == {}
Some(v) == {v}
Val(o) == CHOOSE v \in o : TRUE
IsDefined(o) == o /= {}

\* if (x) for an optional number: undefined and 0 are falsy
TruthyNum(o) == o /= {} /\ Val(o) /= 0
\* if (x) for an optional string: undefined and "" are falsy
TruthyStr(o) == o /= {} /\ Val(o) /= ""
\* if (x) for an optional object: only undefined is falsy
TruthyObj(o) == o /= {}

Min(a, b) == IF a <= b THEN a ELSE b

(***************************************************************************)
(* The catalog.  mockData.ts is not among the sources; the catalog is      *)
(* built from the specification's scenarios: 14 listings, 5 of them        *)
(* restaurants, "listing-3" priced 150, one listing at the Casablanca      *)
(* centre (33.5892, -7.6125).  Ids are unique, price > 0, 0 <= rating <= 50.*)
(***************************************************************************)
\* the texts of a listing; a string is the sequence of its characters
TextOf(id) ==
  CASE
       id = "listing-1" ->
         [title |-> <<"C", "a", "f", "é">>, titleFr |-> <<"C", "a", "f", "é">>,
         description |-> <<"s", "e", "a">>, descriptionFr |-> <<"m", "e", "r">>]
    [] id = "listing-2" ->
         [title |-> <<"A", "R", "T">>, titleFr |-> <<"A", "R", "T">>,
         description |-> <<"o", "l", "d">>, descriptionFr |-> <<"a", "n", "c">>]
    [] id = "listing-3" ->
         [title |-> <<"J", "a", "z", "z">>, titleFr |-> <<"J", "a", "z", "z">>,
         description |-> <<"l", "i", "v", "e">>, descriptionFr |-> <<"c", "a", "f", "é">>]
    [] id = "listing-4" ->
         [title |-> <<"C", "A", "F", "E">>, titleFr |-> <<"C", "A", "F", "E">>,
         description |-> <<"g", "r", "i", "l", "l">>, descriptionFr |-> <<"g", "r", "i", "l">>]
    [] id = "listing-5" ->
         [title |-> <<"S", "o", "u", "k">>, titleFr |-> <<"S", "o", "u", "k">>,
         description |-> <<"a", "r", "t">>, descriptionFr |-> <<"a", "r", "t", "s">>]
    [] id = "listing-6" ->
         [title |-> <<"S", "h", "o", "w">>, titleFr |-> <<"M", "e", "r">>,
         description |-> <<"g", "a", "l", "a">>, descriptionFr |-> <<"g", "a", "l", "a">>]
    [] id = "listing-7" ->
         [title |-> <<"L", "e", " ", "C", "a", "f", "é">>, titleFr |-> <<"L", "e", " ", "C", "a", "f", "é">>,
         description |-> <<"f", "i", "s", "h">>, descriptionFr |-> <<"t", "h", "o", "n">>]
    [] OTHER ->
         [title |-> <<"S", "p", "o", "t">>, titleFr |-> <<"L", "i", "e", "u">>,
         description |-> <<"t", "o", "u", "r">>, descriptionFr |-> <<"t", "o", "u", "r">>]

\* the dates a listing can be booked on, each with its time slots
AvailabilityOf(id) ==
  IF id = "listing-2"
  THEN << [date |-> "2025-06-02", slots |-> <<"18:00">>] >>
  ELSE << [date |-> "2025-06-01", slots |-> <<"10:00", "14:00">>],
          [date |-> "2025-06-02", slots |-> <<"18:00">>] >>

Listing(id, category, price, rating, lat, lng) ==
  [id |-> id, category |-> category, price |-> price, rating |-> rating,
   location |-> [lat |-> lat, lng |-> lng],
   availability |-> AvailabilityOf(id),
   title |-> TextOf(id).title, titleFr |-> TextOf(id).titleFr,
   description |-> TextOf(id).description,
   descriptionFr |-> TextOf(id).descriptionFr]

Catalog ==
  << Listing("listing-1",  "restaurant",  80, 47, 335892, -76125),
     Listing("listing-2",  "cultural",    50, 45, 336080, -76320),
     Listing("listing-3",  "event",      150, 40, 335731, -75898),
     Listing("listing-4",  "restaurant", 200, 35, 335950, -76200),
     Listing("listing-5",  "cultural",   100, 48, 335333, -75833),
     Listing("listing-6",  "event",      300, 42, 335892, -76125),
     Listing("listing-7",  "restaurant", 120, 45, 336000, -76500),
     Listing("listing-8",  "cultural",    30, 30, 335700, -76100),
     Listing("listing-9",  "event",      500, 49, 336500, -75500),
     Listing("listing-10", "restaurant", 250, 38, 335899, -76130),
     Listing("listing-11", "cultural",   200, 44, 335800, -76000),
     Listing("listing-12", "event",      100, 36, 335500, -76800),
     Listing("listing-13", "restaurant", 600, 50, 335920, -76150),
     Listing("listing-14", "cultural",   150, 41, 340200, -68400) >>

(***************************************************************************)
(* calculateDistance: the haversine formula, in fixed point.  Angles are   *)
(* microradians, sines and cosines are millionths, the result is metres.   *)
(* sin, cos and asin are their Taylor polynomials (x - x^3/6,              *)
(* 1 - x^2/2 + x^4/24, y + y^3/6), and 2*atan2(sqrt a, sqrt(1-a)) is       *)
(* computed as 2*asin(sqrt a), the same angle for 0 <= a <= 1.             *)
(* Intermediate values stay below 2^31 for points up to 5 degrees apart.   *)
(***************************************************************************)
EarthRadiusKm == 6371

\* deg * (Math.PI / 180): 1e-4 degrees to microradians
deg2rad(deg) == (deg * 1745) \div 1000

SinMicro(x) == x - (((x * x) \div 1000000) * x) \div 6000000

CosMicro(x) ==
  LET m2 == (x \div 1000) * (x \div 1000)
  IN  1000000 - (m2 \div 2) + ((m2 \div 1000) * (m2 \div 1000)) \div 24

AsinMicro(y) == y + (((y * y) \div 1000000) * y) \div 6000000

RECURSIVE IsqrtIter(_, _)
IsqrtIter(n, x) ==
  LET y == (x + n \div x) \div 2
  IN  IF y >= x THEN x ELSE IsqrtIter(n, y)

\* Math.sqrt, rounded down
Isqrt(n) == IF n < 2 THEN n ELSE IsqrtIter(n, n)

calculateDistance(lat1, lon1, lat2, lon2) ==
  LET dLat == deg2rad(lat2 - lat1)
      dLon == deg2rad(lon2 - lon1)
      sLat == SinMicro(dLat \div 2)
      sLon == SinMicro(dLon \div 2)
      cc   == ((CosMicro(deg2rad(lat1)) \div 1000)
                * (CosMicro(deg2rad(lat2)) \div 1000)) \div 1000
      a    == sLat * sLat + ((cc * sLon) \div 1000) * sLon
      c    == 2 * AsinMicro(Isqrt(a))
  IN  (EarthRadiusKm * c) \div 1000

(***************************************************************************)
(* getListings(filters, page, limit).                                      *)
(***************************************************************************)
DefaultLimit == 10

\* Array.prototype.slice(start, end) for 0 <= start <= end
slice(arr, start, end) ==
  IF start >= Len(arr) THEN << >>
  ELSE SubSeq(arr, start + 1, Min(end, Len(arr)))

\* a plausible slip: < for <=
StrictlyWithinRadius(listing, loc) ==
  calculateDistance(loc.lat, loc.lng, listing.location.lat, listing.location.lng)
    < loc.radius * 1000

\* the radius is given in km, the distance is computed in metres
WithinRadius(listing, loc) ==
  calculateDistance(loc.lat, loc.lng, listing.location.lat, listing.location.lng)
    <= loc.radius * 1000

ByCategory(listings, f) ==
  IF TruthyStr(f.category)
  THEN SelectSeq(listings, LAMBDA l : l.category = Val(f.category))
  ELSE listings

ByMinPrice(listings, f) ==
  IF TruthyNum(f.minPrice)
  THEN SelectSeq(listings, LAMBDA l : l.price >= Val(f.minPrice))
  ELSE listings

ByMaxPrice(listings, f) ==
  IF TruthyNum(f.maxPrice)
  THEN SelectSeq(listings, LAMBDA l : l.price <= Val(f.maxPrice))
  ELSE listings

ByMinRating(listings, f) ==
  IF TruthyNum(f.minRating)
  THEN SelectSeq(listings, LAMBDA l : l.rating >= Val(f.minRating))
  ELSE listings

ByLocation(listings, f) ==
  IF TruthyObj(f.location)
  THEN SelectSeq(listings, LAMBDA l : WithinRadius(l, Val(f.location)))
  ELSE listings

\* a plausible slip: the date filter keeps the listings available that day
FilteredAlsoByDate(listings, filters) ==
  IF TruthyObj(filters)
  THEN LET f == Val(filters)
           byDate(ls) ==
             IF TruthyStr(f.date)
             THEN SelectSeq(ls, LAMBDA l :
                    \E i \in 1..Len(l.availability) :
                      l.availability[i].date = Val(f.date))
             ELSE ls
       IN  byDate(ByLocation(ByMinRating(ByMaxPrice(ByMinPrice(
             ByCategory(listings, f), f), f), f), f))
  ELSE listings

\* the filtered copy of the catalog; filters is optional
filteredListings(listings, filters) ==
  IF TruthyObj(filters)
  THEN LET f == Val(filters)
       IN  ByLocation(ByMinRating(ByMaxPrice(ByMinPrice(ByCategory(listings, f), f), f), f), f)
  ELSE listings

\* a plausible slip: pages counted from 0
StartIndexFromZero(page, limit) == page * limit
startIndex(page, limit) == (page - 1) * limit
endIndex(page, limit) == startIndex(page, limit) + limit
\* a plausible slip: <= for <
HasMoreInclusive(end, total) == end <= total
hasMore(end, total) == end < total

getListings(listings, filters, page, limit) ==
  LET filtered == filteredListings(listings, filters)
  IN  [data    |-> slice(filtered, startIndex(page, limit), endIndex(page, limit)),
       total   |-> Len(filtered),
       page    |-> page,
       limit   |-> limit,
       hasMore |-> hasMore(endIndex(page, limit), Len(filtered))]

(***************************************************************************)
(* The arguments getListings is called with.                               *)
(***************************************************************************)
CasablancaLat == 335892
CasablancaLng == -76125

Categories == {Undefined, Some("restaurant")}
MinPrices == {Undefined, Some(0), Some(100)}
MaxPrices == {Undefined, Some(0), Some(200)}
MinRatings == {Undefined, Some(0), Some(45)}
Dates == {Undefined, Some("2025-06-01")}
Locations ==
  {Undefined,
   Some([lat |-> CasablancaLat, lng |-> CasablancaLng, radius |-> 0]),
   Some([lat |-> CasablancaLat, lng |-> CasablancaLng, radius |-> 3])}

ListingFilters ==
  [category : Categories, minPrice : MinPrices, maxPrice : MaxPrices,
   minRating : MinRatings, date : Dates, location : Locations]

FilterArgs == {Undefined} \cup {Some(f) : f \in ListingFilters}
Limits == (1..MaxLimit) \cup {DefaultLimit}

(***************************************************************************)
(* The paging reader: a caller that fixes filters and limit, reads pages   *)
(* 1, 2, ..., MaxPage in order (also past the last page) and concatenates  *)
(* their data, as the explore page does on "load more".                    *)
(***************************************************************************)
NoResponse == {}

QueryInit ==
  /\ qFilters \in FilterArgs
  /\ qLimit \in Limits
  /\ qPage = 0
  /\ qAcc = << >>
  /\ qResp = NoResponse

ReadNextPage ==
  /\ qPage < MaxPage
  /\ LET r == getListings(mockListings, qFilters, qPage + 1, qLimit)
     IN  /\ qResp' = Some(r)
         /\ qAcc' = qAcc \o r.data
         /\ qPage' = qPage + 1
  /\ UNCHANGED <<mockListings, storeVars, qFilters, qLimit, pageVars>>

(***************************************************************************)
(* The store: the mock user, the clock and the calls in flight.            *)
(*                                                                         *)
(* Every data-layer function is "await delay(ms)" followed by a body with  *)
(* no further await: a call is issued (its arguments are captured and a    *)
(* timer is set), and when the timer fires the body runs in one step.      *)
(* Timers fire when due, in the order they were set; the clock advances    *)
(* only when no timer is due, so bodies whose timers are due at the same   *)
(* millisecond read the same Date.now().  The model looks at the clock     *)
(* when a timer fires: calls are issued at time 0 and at the instants      *)
(* timers fire, and idle time between a resolution and the next call is    *)
(* not counted.                                                            *)
(***************************************************************************)
createBookingDelay == 1000
getBookingsDelay == 400
cancelBookingDelay == 500
getListingsDelay == 800
getListingDelay == 500
getUserDelay == 400
searchListingsDelay == 600
updateUserPreferencesDelay == 500
addToWishlistDelay == 300
removeFromWishlistDelay == 300
getWishlistDelay == 500

StoreInit ==
  /\ mockUser = [wishlist |-> << >>, bookings |-> << >>,
                 preferences |-> [theme |-> "light", language |-> "en"]]
  /\ now = 0
  /\ inflight = << >>
  /\ response = NoResponse

Call(op, booking, bookingId, due) ==
  [op |-> op, booking |-> booking, bookingId |-> bookingId, arg |-> Undefined,
   due |-> due]

\* a call of an operation that takes one argument other than a booking
CallWith(op, arg, due) ==
  [Call(op, Undefined, Undefined, due) EXCEPT !.arg = Some(arg)]

\* `booking-${Date.now()}`
BookingId(ms) == <<"booking-", ms>>
NoSuchBookingId == <<"booking-", -1>>

PriceOf(listingId) ==
  LET i == CHOOSE i \in 1..Len(mockListings) : mockListings[i].id = listingId
  IN  mockListings[i].price

\* the arguments createBooking is called with: Omit<Booking, "id" | "createdAt">
BookingArg(listingId, participants, status, totalPrice) ==
  [listingId |-> listingId, date |-> "2025-06-01", time |-> "14:00",
   participants |-> participants, status |-> status, totalPrice |-> totalPrice]

\* what the booking wizard passes (status confirmed, totalPrice =
\* listing.price * form.participants), the same for a booking still pending,
\* a call with no participants, and a call whose totalPrice is not the product
BookingArgs ==
  { BookingArg("listing-3", 3, "confirmed", PriceOf("listing-3") * 3),
    BookingArg("listing-3", 1, "pending", PriceOf("listing-3") * 1),
    BookingArg("listing-3", 0, "confirmed", 0),
    BookingArg("listing-3", 1, "confirmed", 0) }

Issued(op) == Len(SelectSeq(inflight, LAMBDA c : c.op = op))

\* the index of the call whose timer fires next, 0 if none is due
DueIndex ==
  IF \E i \in 1..Len(inflight) : inflight[i].due <= now
  THEN CHOOSE i \in 1..Len(inflight) :
         /\ inflight[i].due <= now
         /\ \A j \in 1..(i - 1) : inflight[j].due > now
  ELSE 0

Remove(seq, i) == SubSeq(seq, 1, i - 1) \o SubSeq(seq, i + 1, Len(seq))

\* the instant of the next timer, given that none is due now
NextDue ==
  CHOOSE t \in {inflight[i].due : i \in 1..Len(inflight)} :
    \A i \in 1..Len(inflight) : t <= inflight[i].due

\* time passes, up to the instant of the next timer
TickWithin(limit) ==
  /\ DueIndex = 0
  /\ inflight /= << >>
  /\ now' = NextDue
  /\ now' <= limit
  /\ response' = NoResponse
  /\ UNCHANGED <<mockListings, mockUser, inflight, queryVars, pageVars>>

Tick == TickWithin(MaxTime)

\* setTimeout: the timer queue is kept in firing order, by due time and,
\* for equal due times, in the order the timers were set
Insert(queue, call) ==
  LET k == Len(SelectSeq(queue, LAMBDA c : c.due <= call.due))
  IN  SubSeq(queue, 1, k) \o <<call>> \o SubSeq(queue, k + 1, Len(queue))

Issue(call) ==
  /\ Len(inflight) < MaxInFlight
  /\ inflight' = Insert(inflight, call)
  /\ response' = NoResponse
  /\ UNCHANGED <<mockListings, mockUser, now, queryVars, pageVars>>

(***************************************************************************)
(* createBooking                                                           *)
(***************************************************************************)
IssueCreateBooking(booking) ==
  /\ Len(mockUser.bookings) + Issued("createBooking") < MaxBookings
  /\ Issue(Call("createBooking", Some(booking), Undefined, now + createBookingDelay))

\* { ...booking, id: `booking-${Date.now()}`, createdAt: new Date().toISOString() }
\* createdAt is kept as the millisecond the ISO string denotes
newBooking(booking, ms) ==
  [id |-> BookingId(ms), listingId |-> booking.listingId, date |-> booking.date,
   time |-> booking.time, participants |-> booking.participants,
   status |-> booking.status, totalPrice |-> booking.totalPrice,
   createdAt |-> ms]

\* a plausible slip: unshift for push
Unshift(bookings, b) == <<b>> \o bookings
\* mockUser.bookings.push(newBooking)
push(bookings, b) == Append(bookings, b)

ResolveCreateBooking ==
  /\ DueIndex > 0
  /\ inflight[DueIndex].op = "createBooking"
  /\ LET b == newBooking(Val(inflight[DueIndex].booking), now)
     IN  /\ mockUser' = [mockUser EXCEPT !.bookings = push(@, b)]
         /\ response' = Some([op |-> "createBooking", value |-> b])
  /\ inflight' = Remove(inflight, DueIndex)
  /\ UNCHANGED <<mockListings, now, queryVars, pageVars>>

(***************************************************************************)
(* getBookings                                                             *)
(***************************************************************************)
IssueGetBookings ==
  Issue(Call("getBookings", Undefined, Undefined, now + getBookingsDelay))

ResolveGetBookings ==
  /\ DueIndex > 0
  /\ inflight[DueIndex].op = "getBookings"
  /\ response' = Some([op |-> "getBookings", value |-> mockUser.bookings])
  /\ inflight' = Remove(inflight, DueIndex)
  /\ UNCHANGED <<mockListings, mockUser, now, queryVars, pageVars>>

(***************************************************************************)
(* cancelBooking                                                           *)
(***************************************************************************)
CancelArgs == {mockUser.bookings[i].id : i \in 1..Len(mockUser.bookings)}
                \cup {NoSuchBookingId}

IssueCancelBooking(bookingId) ==
  Issue(Call("cancelBooking", Undefined, Some(bookingId), now + cancelBookingDelay))

\* bookings.find((b) => b.id === bookingId): the index of the first match, 0 if none
find(bookings, bookingId) ==
  IF \E i \in 1..Len(bookings) : bookings[i].id = bookingId
  THEN CHOOSE i \in 1..Len(bookings) :
         /\ bookings[i].id = bookingId
         /\ \A j \in 1..(i - 1) : bookings[j].id /= bookingId
  ELSE 0

\* a plausible slip: cancelling toggles, so a second cancel restores the booking
CancelToggles(bookings, bookingId) ==
  LET i == find(bookings, bookingId)
  IN  IF i = 0 THEN bookings
      ELSE IF bookings[i].status = "cancelled"
           THEN [bookings EXCEPT ![i].status = "confirmed"]
           ELSE [bookings EXCEPT ![i].status = "cancelled"]
\* a plausible slip: with no match, the booking made last is cancelled
CancelOrLast(bookings, bookingId) ==
  LET i == find(bookings, bookingId)
  IN  IF i > 0 THEN [bookings EXCEPT ![i].status = "cancelled"]
      ELSE IF bookings = << >> THEN bookings
           ELSE [bookings EXCEPT ![Len(bookings)].status = "cancelled"]
\* a plausible slip: cancelling refunds, and the refund is taken off the total
CancelRefunds(bookings, bookingId) ==
  LET i == find(bookings, bookingId)
  IN  IF i > 0
      THEN [bookings EXCEPT ![i].status = "cancelled", ![i].totalPrice = 0]
      ELSE bookings
\* if (booking) { booking.status = "cancelled"; }
cancel(bookings, bookingId) ==
  LET i == find(bookings, bookingId)
  IN  IF i > 0 THEN [bookings EXCEPT ![i].status = "cancelled"] ELSE bookings

ResolveCancelBooking ==
  /\ DueIndex > 0
  /\ inflight[DueIndex].op = "cancelBooking"
  /\ mockUser' = [mockUser EXCEPT
                    !.bookings = cancel(@, Val(inflight[DueIndex].bookingId))]
  /\ response' = Some([op |-> "cancelBooking", value |-> << >>])
  /\ inflight' = Remove(inflight, DueIndex)
  /\ UNCHANGED <<mockListings, now, queryVars, pageVars>>

(***************************************************************************)
(* getListings and getUser as calls of a session                           *)
(***************************************************************************)
\* the first page with no filters and the default limit, and a second page
\* of two restaurants
GetListingsArgs ==
  { [filters |-> Undefined, page |-> 1, limit |-> DefaultLimit],
    [filters |-> Some([category |-> Some("restaurant"), minPrice |-> Undefined,
                       maxPrice |-> Undefined, minRating |-> Undefined,
                       date |-> Undefined, location |-> Undefined]),
     page |-> 2, limit |-> 2] }

IssueGetListings(args) ==
  Issue(CallWith("getListings", args, now + getListingsDelay))

ResolveGetListings ==
  /\ DueIndex > 0
  /\ inflight[DueIndex].op = "getListings"
  /\ LET args == Val(inflight[DueIndex].arg)
     IN  response' = Some([op |-> "getListings", arg |-> args,
                           value |-> getListings(mockListings, args.filters,
                                                 args.page, args.limit)])
  /\ inflight' = Remove(inflight, DueIndex)
  /\ UNCHANGED <<mockListings, mockUser, now, queryVars, pageVars>>

IssueGetUser ==
  Issue(Call("getUser", Undefined, Undefined, now + getUserDelay))

ResolveGetUser ==
  /\ DueIndex > 0
  /\ inflight[DueIndex].op = "getUser"
  /\ response' = Some([op |-> "getUser", value |-> mockUser])
  /\ inflight' = Remove(inflight, DueIndex)
  /\ UNCHANGED <<mockListings, mockUser, now, queryVars, pageVars>>

(***************************************************************************)
(* getListing                                                              *)
(***************************************************************************)
\* ids a page can ask for: two of the catalog and one that is not in it
ListingIdArgs == {"listing-1", "listing-14", "listing-99"}

\* the value null, which no listing and no undefined is equal to
Null == {[null |-> TRUE]}

IssueGetListing(id) ==
  Issue(CallWith("getListing", id, now + getListingDelay))

\* mockListings.find((listing) => listing.id === id): the first match, or undefined
findListing(listings, id) ==
  IF \E i \in 1..Len(listings) : listings[i].id = id
  THEN Some(listings[CHOOSE i \in 1..Len(listings) :
                       /\ listings[i].id = id
                       /\ \A j \in 1..(i - 1) : listings[j].id /= id])
  ELSE Undefined

\* a plausible slip: the result of find is returned as it is
GetListingOrUndefined(listings, id) == findListing(listings, id)
\* mockListings.find(...) || null
getListing(listings, id) ==
  IF TruthyObj(findListing(listings, id)) THEN findListing(listings, id) ELSE Null

ResolveGetListing ==
  /\ DueIndex > 0
  /\ inflight[DueIndex].op = "getListing"
  /\ response' = Some([op |-> "getListing", arg |-> Val(inflight[DueIndex].arg),
                       value |-> getListing(mockListings,
                                            Val(inflight[DueIndex].arg))])
  /\ inflight' = Remove(inflight, DueIndex)
  /\ UNCHANGED <<mockListings, mockUser, now, queryVars, pageVars>>

(***************************************************************************)
(* searchListings                                                          *)
(*                                                                         *)
(* toLowerCase maps each upper-case letter to its lower-case letter and    *)
(* leaves every other character as it is.                                  *)
(***************************************************************************)
UpperCase ==
  <<"A", "B", "C", "D", "E", "F", "G", "H", "I", "J", "K", "L", "M", "N",
    "O", "P", "Q", "R", "S", "T", "U", "V", "W", "X", "Y", "Z", "É">>
LowerCase ==
  <<"a", "b", "c", "d", "e", "f", "g", "h", "i", "j", "k", "l", "m", "n",
    "o", "p", "q", "r", "s", "t", "u", "v", "w", "x", "y", "z", "é">>

\* the strings a page can search for
QueryArgs ==
  { << >>,
    <<"c", "a", "f", "é">>,
    <<"C", "A", "F", "É">>,
    <<"C", "a", "f">>,
    <<"a", "r", "t">>,
    <<"M", "e", "r">>,
    <<"z", "z", "z">> }

toLowerCaseChar(c) ==
  IF \E i \in 1..Len(UpperCase) : UpperCase[i] = c
  THEN LowerCase[CHOOSE i \in 1..Len(UpperCase) : UpperCase[i] = c]
  ELSE c

\* a plausible slip: the query is used as typed
SameCase(string) == string
\* String.prototype.toLowerCase
toLowerCase(string) == [i \in 1..Len(string) |-> toLowerCaseChar(string[i])]

\* a plausible slip: the string has to start with the search string
StartsWith(string, searchString) ==
  /\ Len(searchString) <= Len(string)
  /\ SubSeq(string, 1, Len(searchString)) = searchString
\* String.prototype.includes
stringIncludes(string, searchString) ==
  \E k \in 0..(Len(string) - Len(searchString)) :
    SubSeq(string, k + 1, k + Len(searchString)) = searchString

IssueSearchListings(query) ==
  Issue(CallWith("searchListings", query, now + searchListingsDelay))

lowercaseQuery(query) == toLowerCase(query)

searchListings(listings, query) ==
  SelectSeq(listings, LAMBDA listing :
    \/ stringIncludes(toLowerCase(listing.title), lowercaseQuery(query))
    \/ stringIncludes(toLowerCase(listing.titleFr), lowercaseQuery(query))
    \/ stringIncludes(toLowerCase(listing.description), lowercaseQuery(query))
    \/ stringIncludes(toLowerCase(listing.descriptionFr), lowercaseQuery(query)))

\* a plausible slip: the newest listings are to come first, and the catalog
\* is reversed in place before it is filtered
SearchReversesCatalog ==
  /\ DueIndex > 0
  /\ inflight[DueIndex].op = "searchListings"
  /\ mockListings' = [i \in 1..Len(mockListings) |->
                        mockListings[Len(mockListings) + 1 - i]]
  /\ response' = Some([op |-> "searchListings",
                       arg |-> Val(inflight[DueIndex].arg),
                       value |-> searchListings(mockListings',
                                                Val(inflight[DueIndex].arg))])
  /\ inflight' = Remove(inflight, DueIndex)
  /\ UNCHANGED <<mockUser, now, queryVars, pageVars>>

ResolveSearchListings ==
  /\ DueIndex > 0
  /\ inflight[DueIndex].op = "searchListings"
  /\ response' = Some([op |-> "searchListings",
                       arg |-> Val(inflight[DueIndex].arg),
                       value |-> searchListings(mockListings,
                                                Val(inflight[DueIndex].arg))])
  /\ inflight' = Remove(inflight, DueIndex)
  /\ UNCHANGED <<mockListings, mockUser, now, queryVars, pageVars>>

(***************************************************************************)
(* updateUserPreferences                                                   *)
(*                                                                         *)
(* Preferences are a record; a Partial<User["preferences"]> is a record    *)
(* over some of its keys.                                                  *)
(***************************************************************************)
PreferencesArgs ==
  { [theme |-> "dark"],
    [language |-> "fr"],
    [theme |-> "light", language |-> "fr"] }

IssueUpdateUserPreferences(preferences) ==
  Issue(CallWith("updateUserPreferences", preferences,
                 now + updateUserPreferencesDelay))

\* a plausible slip: the argument replaces the preferences
ReplacePreferences(preferences, partial) == partial
\* { ...mockUser.preferences, ...preferences }
spread(preferences, partial) ==
  [k \in (DOMAIN preferences) \cup (DOMAIN partial) |->
     IF k \in DOMAIN partial THEN partial[k] ELSE preferences[k]]

ResolveUpdateUserPreferences ==
  /\ DueIndex > 0
  /\ inflight[DueIndex].op = "updateUserPreferences"
  /\ mockUser' = [mockUser EXCEPT
                    !.preferences = spread(@, Val(inflight[DueIndex].arg))]
  /\ response' = Some([op |-> "updateUserPreferences",
                       arg |-> Val(inflight[DueIndex].arg),
                       value |-> mockUser'])
  /\ inflight' = Remove(inflight, DueIndex)
  /\ UNCHANGED <<mockListings, now, queryVars, pageVars>>

(***************************************************************************)
(* addToWishlist, removeFromWishlist, getWishlist                          *)
(***************************************************************************)
\* listing ids a page can pass: two of the catalog and one that is not in it
WishlistArgs == {"listing-1", "listing-3", "listing-99"}

\* Array.prototype.includes
includes(array, x) == \E i \in 1..Len(array) : array[i] = x

IssueAddToWishlist(listingId) ==
  Issue(CallWith("addToWishlist", listingId, now + addToWishlistDelay))

\* a plausible slip: the push is not guarded
AddAlways(wishlist, listingId) == push(wishlist, listingId)
\* if (!mockUser.wishlist.includes(listingId)) { mockUser.wishlist.push(listingId); }
addToWishlist(wishlist, listingId) ==
  IF ~includes(wishlist, listingId) THEN push(wishlist, listingId) ELSE wishlist

ResolveAddToWishlist ==
  /\ DueIndex > 0
  /\ inflight[DueIndex].op = "addToWishlist"
  /\ mockUser' = [mockUser EXCEPT
                    !.wishlist = addToWishlist(@, Val(inflight[DueIndex].arg))]
  /\ response' = Some([op |-> "addToWishlist",
                       arg |-> Val(inflight[DueIndex].arg), value |-> << >>])
  /\ inflight' = Remove(inflight, DueIndex)
  /\ UNCHANGED <<mockListings, now, queryVars, pageVars>>

IssueRemoveFromWishlist(listingId) ==
  Issue(CallWith("removeFromWishlist", listingId, now + removeFromWishlistDelay))

\* a plausible slip: wishlist.splice(wishlist.indexOf(listingId), 1), which
\* removes the last id when listingId is absent (indexOf gives -1)
RemoveBySplice(wishlist, listingId) ==
  IF includes(wishlist, listingId)
  THEN Remove(wishlist, CHOOSE i \in 1..Len(wishlist) :
                          /\ wishlist[i] = listingId
                          /\ \A j \in 1..(i - 1) : wishlist[j] /= listingId)
  ELSE SubSeq(wishlist, 1, Len(wishlist) - 1)

\* a plausible slip: the filter keeps the id instead of dropping it
RemoveKeepsOnly(wishlist, listingId) ==
  SelectSeq(wishlist, LAMBDA id : id = listingId)
\* mockUser.wishlist.filter((id) => id !== listingId)
removeFromWishlist(wishlist, listingId) ==
  SelectSeq(wishlist, LAMBDA id : id /= listingId)

ResolveRemoveFromWishlist ==
  /\ DueIndex > 0
  /\ inflight[DueIndex].op = "removeFromWishlist"
  /\ mockUser' = [mockUser EXCEPT
                    !.wishlist = removeFromWishlist(@, Val(inflight[DueIndex].arg))]
  /\ response' = Some([op |-> "removeFromWishlist",
                       arg |-> Val(inflight[DueIndex].arg), value |-> << >>])
  /\ inflight' = Remove(inflight, DueIndex)
  /\ UNCHANGED <<mockListings, now, queryVars, pageVars>>

IssueGetWishlist ==
  Issue(Call("getWishlist", Undefined, Undefined, now + getWishlistDelay))

\* a plausible slip: the listings are looked up in the order of the wishlist
WishlistInAddOrder(listings, wishlist) ==
  LET known == SelectSeq(wishlist, LAMBDA id :
                 \E i \in 1..Len(listings) : listings[i].id = id)
  IN  [k \in 1..Len(known) |->
         listings[CHOOSE i \in 1..Len(listings) : listings[i].id = known[k]]]
\* mockListings.filter((listing) => mockUser.wishlist.includes(listing.id))
getWishlist(listings, wishlist) ==
  SelectSeq(listings, LAMBDA listing : includes(wishlist, listing.id))

ResolveGetWishlist ==
  /\ DueIndex > 0
  /\ inflight[DueIndex].op = "getWishlist"
  /\ response' = Some([op |-> "getWishlist",
                       value |-> getWishlist(mockListings, mockUser.wishlist)])
  /\ inflight' = Remove(inflight, DueIndex)
  /\ UNCHANGED <<mockListings, mockUser, now, queryVars, pageVars>>

(***************************************************************************)
(* The environment of the data layer.                                      *)
(*                                                                         *)
(* The catalog is edited by a content-management process outside the       *)
(* repository: it changes the price of a listing.  The mock user is seeded *)
(* by mockData; a session starts from a user with nothing saved or from    *)
(* one with a wishlist and a booking made before the session.              *)
(***************************************************************************)
ListingPrices == {150, 200}

ChangeListingPrice(id, price) ==
  /\ \E i \in 1..Len(mockListings) :
       /\ mockListings[i].id = id
       /\ mockListings[i].price /= price
       /\ mockListings' = [mockListings EXCEPT ![i].price = price]
  /\ response' = NoResponse
  /\ UNCHANGED <<mockUser, now, inflight, queryVars, pageVars>>

SeedBooking ==
  newBooking(BookingArg("listing-3", 2, "confirmed", 300), -1000)

SeedUsers ==
  { [wishlist |-> << >>, bookings |-> << >>,
     preferences |-> [theme |-> "light", language |-> "en"]],
    [wishlist |-> <<"listing-3", "listing-1">>, bookings |-> <<SeedBooking>>,
     preferences |-> [theme |-> "light", language |-> "en"]] }

(***************************************************************************)
(* The booking wizard (BookingModal), mounted once by its page and shown   *)
(* for listing-3.  Its state is isOpen (the page's prop), step, isLoading  *)
(* and form.  A gesture runs its handler and the render that follows in    *)
(* one step.  handlePaymentSubmit awaits the payment timer and then        *)
(* createBooking, with the listing, form and totalPrice of the render in   *)
(* which Pay was pressed; what follows each await runs in the step in      *)
(* which the awaited promise settles.                                      *)
(***************************************************************************)
paymentDelay == 2000

EmptyForm == [date |-> "", time |-> "", participants |-> 1]

BookingModalInit ==
  [isOpen |-> FALSE, step |-> "form", isLoading |-> FALSE, form |-> EmptyForm]

\* the listing prop
ModalListing ==
  mockListings[CHOOSE i \in 1..Len(mockListings) : mockListings[i].id = "listing-3"]

\* listing.availability.map((a) => a.date)
availableDates(listing) ==
  {listing.availability[i].date : i \in 1..Len(listing.availability)}

\* listing.availability.find((a) => a.date === form.date)?.slots || []
availableSlots(listing, form) ==
  IF \E i \in 1..Len(listing.availability) : listing.availability[i].date = form.date
  THEN LET a == listing.availability[
                  CHOOSE i \in 1..Len(listing.availability) :
                    /\ listing.availability[i].date = form.date
                    /\ \A j \in 1..(i - 1) : listing.availability[j].date /= form.date]
       IN  {a.slots[k] : k \in 1..Len(a.slots)}
  ELSE {}

\* the page opens the modal; the effect on isOpen resets step and form
OpenModal ==
  /\ ~modal.isOpen
  /\ modal' = [modal EXCEPT !.isOpen = TRUE, !.step = "form", !.form = EmptyForm]
  /\ response' = NoResponse
  /\ UNCHANGED <<mockListings, mockUser, now, inflight, queryVars, profile, explore>>

\* a plausible slip: closing the modal gives up the submission in flight
HandleCloseAborts ==
  /\ modal.isOpen
  /\ modal' = [modal EXCEPT !.step = "form", !.isOpen = FALSE]
  /\ inflight' = SelectSeq(inflight, LAMBDA c :
                    c.op /= "payment" /\ c.op /= "createBooking")
  /\ response' = NoResponse
  /\ UNCHANGED <<mockListings, mockUser, now, queryVars, profile, explore>>

\* setStep("form"); onClose()
handleClose ==
  /\ modal.isOpen
  /\ modal' = [modal EXCEPT !.step = "form", !.isOpen = FALSE]
  /\ response' = NoResponse
  /\ UNCHANGED <<mockListings, mockUser, now, inflight, queryVars, profile, explore>>

\* a gesture on the form: the modal is open at step form
FormGesture(form) ==
  /\ modal.isOpen
  /\ modal.step = "form"
  /\ form /= modal.form
  /\ modal' = [modal EXCEPT !.form = form]
  /\ response' = NoResponse
  /\ UNCHANGED <<mockListings, mockUser, now, inflight, queryVars, profile, explore>>

\* a plausible slip: the slot chosen for the date before is kept
SelectDateKeepsTime(form, date) == [form EXCEPT !.date = date]
\* the date select: { ...prev, date: e.target.value, time: "" }
selectDate(form, date) == [form EXCEPT !.date = date, !.time = ""]

\* a slot button: { ...prev, time: slot }
selectSlot(form, slot) == [form EXCEPT !.time = slot]

\* the - button: Math.max(1, prev.participants - 1)
decrement(form) ==
  [form EXCEPT !.participants = IF @ - 1 >= 1 THEN @ - 1 ELSE 1]

\* the + button: prev.participants + 1
increment(form) == [form EXCEPT !.participants = @ + 1]

\* the options of the select are "" and the available dates
SelectDate ==
  \E date \in {""} \cup availableDates(ModalListing) :
    FormGesture(selectDate(modal.form, date))

\* the slot buttons are rendered when form.date is set, one per available slot
SelectSlot ==
  /\ modal.form.date /= ""
  /\ \E slot \in availableSlots(ModalListing, modal.form) :
       FormGesture(selectSlot(modal.form, slot))

Decrement == FormGesture(decrement(modal.form))

Increment ==
  /\ modal.form.participants < MaxParticipants
  /\ FormGesture(increment(modal.form))

\* if (form.date && form.time && form.participants > 0) setStep("payment")
handleFormSubmit ==
  /\ modal.isOpen
  /\ modal.step = "form"
  /\ modal.form.date /= "" /\ modal.form.time /= "" /\ modal.form.participants > 0
  /\ modal' = [modal EXCEPT !.step = "payment"]
  /\ response' = NoResponse
  /\ UNCHANGED <<mockListings, mockUser, now, inflight, queryVars, profile, explore>>

\* the Back button of the payment step: setStep("form")
Back ==
  /\ modal.isOpen
  /\ modal.step = "payment"
  /\ modal' = [modal EXCEPT !.step = "form"]
  /\ response' = NoResponse
  /\ UNCHANGED <<mockListings, mockUser, now, inflight, queryVars, profile, explore>>

\* createBooking({ listingId: listing.id, date: form.date, time: form.time,
\*                 participants: form.participants, status: "confirmed", totalPrice })
\* with totalPrice = listing.price * form.participants
PendingBooking(listing, form) ==
  [listingId |-> listing.id, date |-> form.date, time |-> form.time,
   participants |-> form.participants, status |-> "pending",
   totalPrice |-> listing.price * form.participants]
modalBooking(listing, form) ==
  [listingId |-> listing.id, date |-> form.date, time |-> form.time,
   participants |-> form.participants, status |-> "confirmed",
   totalPrice |-> listing.price * form.participants]

\* a plausible slip: the Pay button is not disabled while a submission runs
PayNeverDisabled(m) == FALSE
\* the Pay button: disabled={isLoading}
payDisabled(m) == m.isLoading

\* Pay is pressed: setIsLoading(true), and the payment timer is set; the
\* booking that createBooking will be called with is fixed by this render
handlePaymentSubmit ==
  /\ modal.isOpen
  /\ modal.step = "payment"
  /\ ~payDisabled(modal)
  /\ Len(inflight) < MaxInFlight
  /\ now + paymentDelay + createBookingDelay <= MaxModalTime
  /\ modal' = [modal EXCEPT !.isLoading = TRUE]
  /\ inflight' = Insert(inflight,
                        Call("payment", Some(modalBooking(ModalListing, modal.form)),
                             Undefined, now + paymentDelay))
  /\ response' = NoResponse
  /\ UNCHANGED <<mockListings, mockUser, now, queryVars, profile, explore>>

\* the payment timer fires: createBooking is called and awaits its delay
ResolvePayment ==
  /\ DueIndex > 0
  /\ inflight[DueIndex].op = "payment"
  /\ inflight' = Insert(Remove(inflight, DueIndex),
                        [Call("createBooking", inflight[DueIndex].booking,
                              Undefined, now + createBookingDelay)
                           EXCEPT !.arg = Some("BookingModal")])
  /\ response' = NoResponse
  /\ UNCHANGED <<mockListings, mockUser, now, queryVars, pageVars>>

\* after await createBooking: setStep("success"), and finally setIsLoading(false)
afterCreateBooking(m) == [m EXCEPT !.step = "success", !.isLoading = FALSE]

\* the body of createBooking, and what follows the await in handlePaymentSubmit
ResolveModalCreateBooking ==
  /\ DueIndex > 0
  /\ inflight[DueIndex].op = "createBooking"
  /\ inflight[DueIndex].arg = Some("BookingModal")
  /\ LET b == newBooking(Val(inflight[DueIndex].booking), now)
     IN  /\ mockUser' = [mockUser EXCEPT !.bookings = push(@, b)]
         /\ response' = Some([op |-> "createBooking", value |-> b])
  /\ modal' = afterCreateBooking(modal)
  /\ inflight' = Remove(inflight, DueIndex)
  /\ UNCHANGED <<mockListings, now, queryVars, profile, explore>>

\* a plausible slip: setStep("success") is in the finally block
FailureShowsSuccess(m) == [m EXCEPT !.step = "success", !.isLoading = FALSE]
\* catch: console.error; finally: setIsLoading(false)
afterFailure(m) == [m EXCEPT !.isLoading = FALSE]

\* the awaited promise (the payment, or createBooking before its body has
\* run) rejects: nothing is stored, and the catch and finally blocks run
RejectSubmission ==
  /\ DueIndex > 0
  /\ inflight[DueIndex].op \in {"payment", "createBooking"}
  /\ modal' = afterFailure(modal)
  /\ inflight' = Remove(inflight, DueIndex)
  /\ response' = Some([op |-> inflight[DueIndex].op, error |-> TRUE])
  /\ UNCHANGED <<mockListings, mockUser, now, queryVars, profile, explore>>

(***************************************************************************)
(* The profile page.  On mount loadUserData awaits                         *)
(* Promise.all([getUser(), getBookings()]): the two calls are made one     *)
(* after the other without awaiting, the promise is fulfilled when both    *)
(* are, and it is rejected as soon as one of them is; what a call of a     *)
(* load that was already rejected returns is dropped.                      *)
(***************************************************************************)
\* useState(null), useState([]), useState(true); no load has been started
ProfilePageInit ==
  [mounted |-> FALSE, user |-> Null, bookings |-> << >>, isLoading |-> TRUE,
   userData |-> Undefined, userBookings |-> Undefined, failed |-> FALSE]

\* the effect of the mount: setIsLoading(true), then getUser() and getBookings()
MountProfile ==
  /\ ~profile.mounted
  /\ Len(inflight) + 2 <= MaxInFlight
  /\ profile' = [profile EXCEPT !.mounted = TRUE, !.isLoading = TRUE]
  /\ inflight' =
       Insert(Insert(inflight,
                     CallWith("getUser", "ProfilePage", now + getUserDelay)),
              CallWith("getBookings", "ProfilePage", now + getBookingsDelay))
  /\ response' = NoResponse
  /\ UNCHANGED <<mockListings, mockUser, now, queryVars, modal, explore>>

\* a plausible slip: each result is shown as soon as it is there
PartialRender(p) ==
  [p EXCEPT !.user = IF IsDefined(p.userData) THEN p.userData ELSE @,
            !.bookings = IF IsDefined(p.userBookings) THEN Val(p.userBookings) ELSE @,
            !.isLoading = FALSE]
\* after await Promise.all: setUser(userData); setBookings(userBookings);
\* finally setIsLoading(false)
afterPromiseAll(p) ==
  IF ~p.failed /\ IsDefined(p.userData) /\ IsDefined(p.userBookings)
  THEN [p EXCEPT !.user = p.userData, !.bookings = Val(p.userBookings),
                 !.isLoading = FALSE]
  ELSE p

\* return mockUser, to loadUserData
ResolveProfileGetUser ==
  /\ DueIndex > 0
  /\ inflight[DueIndex].op = "getUser"
  /\ inflight[DueIndex].arg = Some("ProfilePage")
  /\ profile' = afterPromiseAll([profile EXCEPT !.userData = Some(mockUser)])
  /\ response' = Some([op |-> "getUser", value |-> mockUser])
  /\ inflight' = Remove(inflight, DueIndex)
  /\ UNCHANGED <<mockListings, mockUser, now, queryVars, modal, explore>>

\* return mockUser.bookings, to loadUserData
ResolveProfileGetBookings ==
  /\ DueIndex > 0
  /\ inflight[DueIndex].op = "getBookings"
  /\ inflight[DueIndex].arg = Some("ProfilePage")
  /\ profile' = afterPromiseAll([profile EXCEPT
                                   !.userBookings = Some(mockUser.bookings)])
  /\ response' = Some([op |-> "getBookings", value |-> mockUser.bookings])
  /\ inflight' = Remove(inflight, DueIndex)
  /\ UNCHANGED <<mockListings, mockUser, now, queryVars, modal, explore>>

\* catch: console.error; finally: setIsLoading(false)
afterLoadFailure(p) == [p EXCEPT !.failed = TRUE, !.isLoading = FALSE]

\* getUser or getBookings rejects: Promise.all is rejected with it
RejectProfileCall ==
  /\ DueIndex > 0
  /\ inflight[DueIndex].op \in {"getUser", "getBookings"}
  /\ inflight[DueIndex].arg = Some("ProfilePage")
  /\ profile' = afterLoadFailure(profile)
  /\ response' = Some([op |-> inflight[DueIndex].op, error |-> TRUE])
  /\ inflight' = Remove(inflight, DueIndex)
  /\ UNCHANGED <<mockListings, mockUser, now, queryVars, modal, explore>>

(***************************************************************************)
(* The explore page.  loadListings(pageNum, reset) is a callback over the  *)
(* filters and the search query of the render it was created in; an effect *)
(* calls loadListings(1, true) on mount and whenever the callback changes, *)
(* that is, whenever setFilters is given a new object or setSearchQuery a  *)
(* new string.  A load in flight is never cancelled, and what it returns   *)
(* is applied to the page's state when it resolves.                        *)
(***************************************************************************)
PageSize == 12

\* ListingFilters objects the filter drawer and the URL produce
EmptyFilters ==
  [category |-> Undefined, minPrice |-> Undefined, maxPrice |-> Undefined,
   minRating |-> Undefined, date |-> Undefined, location |-> Undefined]

\* the state of the page before its first load resolves
ExplorePageInit ==
  [mounted |-> FALSE, listings |-> << >>, isLoading |-> TRUE,
   isLoadingMore |-> FALSE, filters |-> EmptyFilters,
   searchQuery |-> << >>, hasMore |-> TRUE, page |-> 1]

ExploreFilters ==
  {EmptyFilters, [EmptyFilters EXCEPT !.category = Some("restaurant")]}

\* what is typed in the search box
ExploreQueries == {<< >>, <<" ">>, <<"a", "r", "t">>}

\* String.prototype.trim
RECURSIVE trim(_)
trim(str) ==
  IF str = << >> THEN << >>
  ELSE IF Head(str) = " " THEN trim(Tail(str))
  ELSE IF str[Len(str)] = " " THEN trim(SubSeq(str, 1, Len(str) - 1))
  ELSE str

\* the call loadListings awaits: searchListings(searchQuery) if the query is
\* not blank, getListings(filters, pageNum, 12) otherwise
ExploreCall(pageNum, reset, filters, searchQuery) ==
  LET args == [caller |-> "ExplorePage", filters |-> filters,
               searchQuery |-> searchQuery, pageNum |-> pageNum,
               reset |-> reset]
  IN  IF trim(searchQuery) /= << >>
      THEN CallWith("searchListings", args, now + searchListingsDelay)
      ELSE CallWith("getListings", args, now + getListingsDelay)

\* loadListings up to its await, on the page state page
loadListings(page, pageNum, reset) ==
  /\ Len(inflight) < MaxInFlight
  /\ now + getListingsDelay <= MaxExploreTime
  /\ explore' = IF pageNum = 1
                THEN [page EXCEPT !.isLoading = TRUE]
                ELSE [page EXCEPT !.isLoadingMore = TRUE]
  /\ inflight' = Insert(inflight,
                        ExploreCall(pageNum, reset, page.filters, page.searchQuery))
  /\ response' = NoResponse
  /\ UNCHANGED <<mockListings, mockUser, now, queryVars, modal, profile>>

\* mount: the effect calls loadListings(1, true)
MountExplore ==
  /\ ~explore.mounted
  /\ loadListings([explore EXCEPT !.mounted = TRUE], 1, TRUE)

\* setFilters(newFilters), from the filter drawer or from the URL effect: the
\* object is new, so the callback changes and the effect reloads page 1
ChangeFilters(newFilters) ==
  /\ explore.mounted
  /\ loadListings([explore EXCEPT !.filters = newFilters], 1, TRUE)

\* setSearchQuery(e.target.value): a new string changes the callback
ChangeSearchQuery(value) ==
  /\ explore.mounted
  /\ value /= explore.searchQuery
  /\ loadListings([explore EXCEPT !.searchQuery = value], 1, TRUE)

\* the Load More button is rendered when the page is not loading, shows
\* listings and hasMore; it is disabled by isLoadingMore
handleLoadMore ==
  /\ explore.mounted
  /\ ~explore.isLoading
  /\ explore.listings /= << >>
  /\ explore.hasMore /\ ~explore.isLoadingMore
  /\ loadListings(explore, explore.page + 1, FALSE)

\* the response loadListings works with
ExploreResponse(op, args) ==
  IF op = "searchListings"
  THEN LET searchResults == searchListings(mockListings, args.searchQuery)
       IN  [data |-> searchResults, total |-> Len(searchResults), page |-> 1,
            limit |-> Len(searchResults), hasMore |-> FALSE]
  ELSE getListings(mockListings, Some(args.filters), args.pageNum, PageSize)

\* what follows the await in loadListings, and its finally block
applyResponse(page, args, resp) ==
  [page EXCEPT !.listings = IF args.reset \/ args.pageNum = 1
                            THEN resp.data ELSE @ \o resp.data,
               !.hasMore = resp.hasMore, !.page = args.pageNum,
               !.isLoading = FALSE, !.isLoadingMore = FALSE]

\* the timer of the awaited call fires: its body runs, then the continuation
ResolveExploreLoad ==
  /\ DueIndex > 0
  /\ inflight[DueIndex].op \in {"getListings", "searchListings"}
  /\ LET args == Val(inflight[DueIndex].arg)
     IN  explore' = applyResponse(explore, args,
                                  ExploreResponse(inflight[DueIndex].op, args))
  /\ inflight' = Remove(inflight, DueIndex)
  /\ response' = NoResponse
  /\ UNCHANGED <<mockListings, mockUser, now, queryVars, modal, profile>>

(***************************************************************************)
(* Specifications.                                                         *)
(*   Spec:      the store operations, issued in any order and overlapping. *)
(*   QuerySpec: getListings over the unchanging catalog, for every choice  *)
(*              of filters and limit.                                      *)
(*   SearchSpec:   getListing and searchListings, overlapping.             *)
(*   WishlistSpec: the wishlist operations, overlapping.                   *)
(*   SessionSpec:  every operation, one call at a time, over a seeded user *)
(*                 and a catalog whose prices are edited.                  *)
(***************************************************************************)
QueryIdle ==
  /\ qFilters = Undefined
  /\ qLimit = DefaultLimit
  /\ qPage = 0
  /\ qAcc = << >>
  /\ qResp = NoResponse

PagesIdle ==
  /\ modal = BookingModalInit
  /\ profile = ProfilePageInit
  /\ explore = ExplorePageInit

Init ==
  /\ mockListings = Catalog
  /\ StoreInit
  /\ QueryIdle
  /\ PagesIdle

Next ==
  \/ Tick
  \/ \E booking \in BookingArgs : IssueCreateBooking(booking)
  \/ ResolveCreateBooking
  \/ IssueGetBookings
  \/ ResolveGetBookings
  \/ \E bookingId \in CancelArgs : IssueCancelBooking(bookingId)
  \/ ResolveCancelBooking

Spec == Init /\ [][Next]_vars

QInit ==
  /\ mockListings = Catalog
  /\ StoreInit
  /\ QueryInit
  /\ PagesIdle

QNext == ReadNextPage

QuerySpec == QInit /\ [][QNext]_vars

\* the lookups by id and by text, issued in any order and overlapping
SearchNext ==
  \/ Tick
  \/ \E id \in ListingIdArgs : IssueGetListing(id)
  \/ ResolveGetListing
  \/ \E query \in QueryArgs : IssueSearchListings(query)
  \/ ResolveSearchListings

SearchSpec == Init /\ [][SearchNext]_vars

\* the wishlist operations, issued in any order and overlapping
WishlistNext ==
  \/ Tick
  \/ \E listingId \in WishlistArgs : IssueAddToWishlist(listingId)
  \/ ResolveAddToWishlist
  \/ \E listingId \in WishlistArgs : IssueRemoveFromWishlist(listingId)
  \/ ResolveRemoveFromWishlist
  \/ IssueGetWishlist
  \/ ResolveGetWishlist

WishlistSpec == Init /\ [][WishlistNext]_vars

\* the booking wizard: every gesture, with a submission that may fail
ModalNext ==
  \/ TickWithin(MaxModalTime)
  \/ OpenModal
  \/ handleClose
  \/ SelectDate
  \/ SelectSlot
  \/ Decrement
  \/ Increment
  \/ handleFormSubmit
  \/ Back
  \/ handlePaymentSubmit
  \/ ResolvePayment
  \/ ResolveModalCreateBooking
  \/ RejectSubmission

ModalSpec == Init /\ [][ModalNext]_vars

\* the booking wizard with a data layer that does not fail; a timer that is
\* due fires, and time does not stop while a timer is pending
ModalLiveNext ==
  \/ TickWithin(MaxModalTime)
  \/ OpenModal
  \/ handleClose
  \/ SelectDate
  \/ SelectSlot
  \/ Decrement
  \/ Increment
  \/ handleFormSubmit
  \/ Back
  \/ handlePaymentSubmit
  \/ ResolvePayment
  \/ ResolveModalCreateBooking

ModalLiveSpec ==
  /\ Init
  /\ [][ModalLiveNext]_vars
  /\ WF_vars(TickWithin(MaxModalTime))
  /\ WF_vars(ResolvePayment)
  /\ WF_vars(ResolveModalCreateBooking)

\* the profile page, mounted at any moment while bookings are made and
\* cancelled, with calls that may fail
ProfileNext ==
  \/ Tick
  \/ MountProfile
  \/ ResolveProfileGetUser
  \/ ResolveProfileGetBookings
  \/ RejectProfileCall
  \/ \E booking \in BookingArgs : IssueCreateBooking(booking)
  \/ ResolveCreateBooking
  \/ \E bookingId \in CancelArgs : IssueCancelBooking(bookingId)
  \/ ResolveCancelBooking

ProfileSpec == Init /\ [][ProfileNext]_vars

\* a session: the calls of the pages, each awaited before the next is made,
\* over a seeded user, while the catalog is edited
SessionInit ==
  /\ mockListings = Catalog
  /\ mockUser \in SeedUsers
  /\ now = 0
  /\ inflight = << >>
  /\ response = NoResponse
  /\ QueryIdle
  /\ PagesIdle

SessionNext ==
  \/ Tick
  \/ /\ inflight = << >>
     /\ \/ \E booking \in BookingArgs : IssueCreateBooking(booking)
        \/ IssueGetBookings
        \/ \E bookingId \in CancelArgs : IssueCancelBooking(bookingId)
        \/ \E preferences \in PreferencesArgs :
             IssueUpdateUserPreferences(preferences)
        \/ \E listingId \in WishlistArgs : IssueAddToWishlist(listingId)
        \/ \E listingId \in WishlistArgs : IssueRemoveFromWishlist(listingId)
        \/ IssueGetWishlist
        \/ \E args \in GetListingsArgs : IssueGetListings(args)
        \/ \E id \in ListingIdArgs : IssueGetListing(id)
        \/ \E query \in QueryArgs : IssueSearchListings(query)
        \/ IssueGetUser
  \/ ResolveGetListings
  \/ ResolveGetListing
  \/ ResolveSearchListings
  \/ ResolveGetUser
  \/ ResolveCreateBooking
  \/ ResolveGetBookings
  \/ ResolveCancelBooking
  \/ ResolveUpdateUserPreferences
  \/ ResolveAddToWishlist
  \/ ResolveRemoveFromWishlist
  \/ ResolveGetWishlist
  \/ \E price \in ListingPrices : ChangeListingPrice("listing-3", price)

SessionSpec == SessionInit /\ [][SessionNext]_vars

\* the explore page: filters and query change and more is loaded at any
\* moment, also while loads are in flight
ExploreNext ==
  \/ TickWithin(MaxExploreTime)
  \/ MountExplore
  \/ \E newFilters \in ExploreFilters : ChangeFilters(newFilters)
  \/ \E value \in ExploreQueries : ChangeSearchQuery(value)
  \/ handleLoadMore
  \/ ResolveExploreLoad

ExploreSpec == Init /\ [][ExploreNext]_vars

(***************************************************************************)
(* Claims about getListings, checked under QuerySpec.                      *)
(***************************************************************************)
\* a listing satisfies every predicate the filters specify (a filter is
\* specified when its value is not undefined, whatever the value)
Satisfies(l, filters) ==
  \/ filters = Undefined
  \/ LET f == Val(filters)
     IN  /\ IsDefined(f.category) => l.category = Val(f.category)
         /\ IsDefined(f.minPrice) => l.price >= Val(f.minPrice)
         /\ IsDefined(f.maxPrice) => l.price <= Val(f.maxPrice)
         /\ IsDefined(f.minRating) => l.rating >= Val(f.minRating)
         /\ IsDefined(f.location) =>
              calculateDistance(Val(f.location).lat, Val(f.location).lng,
                                l.location.lat, l.location.lng)
                <= Val(f.location).radius * 1000

InCatalog(l) == \E i \in 1..Len(mockListings) : mockListings[i] = l
CatalogIndex(l) == CHOOSE i \in 1..Len(mockListings) : mockListings[i] = l
Expected == SelectSeq(mockListings, LAMBDA l : Satisfies(l, qFilters))
IsPrefix(s, t) == Len(s) <= Len(t) /\ s = SubSeq(t, 1, Len(s))
CeilDiv(a, b) == (a + b - 1) \div b

\* C1: every listing getListings returns is a catalog listing that satisfies
\* every specified predicate (category, minPrice, maxPrice, minRating,
\* radius), the value 0 included.
C1_ReturnedSatisfyFilters ==
  \A r \in qResp : \A i \in 1..Len(r.data) :
    InCatalog(r.data[i]) /\ Satisfies(r.data[i], qFilters)

\* C2: the filtered set is exactly the catalog listings that satisfy all the
\* specified predicates, in catalog order: total counts them all and the
\* pages read so far are its beginning; with 5 restaurants among 14 listings,
\* category = restaurant, page 1, limit 10 gives 5 items, total 5, no more.
C2_FilteredIsConjunction ==
  \A r \in qResp :
    /\ r.total = Len(Expected)
    /\ IsPrefix(qAcc, Expected)
    /\ ( /\ qFilters /= Undefined
         /\ Val(qFilters).category = Some("restaurant")
         /\ \A k \in {"minPrice", "maxPrice", "minRating", "location"} :
              Val(qFilters)[k] = Undefined
         /\ r.page = 1 /\ r.limit = DefaultLimit )
       => (Len(r.data) = 5 /\ r.total = 5 /\ ~r.hasMore)

\* C3: for fixed filters and limit >= 1, the data of pages 1..N concatenated,
\* N = ceil(total / limit), is the whole filtered set, every item once and in
\* catalog order; before page N it is the first page * limit items.
C3_PagesReconstructFilteredSet ==
  \A r \in qResp :
    LET filtered == filteredListings(mockListings, qFilters)
        N == CeilDiv(r.total, qLimit)
    IN  /\ qPage <= N => qAcc = SubSeq(filtered, 1, Min(qPage * qLimit, r.total))
        /\ qPage >= N => qAcc = filtered
        /\ \A i, j \in 1..Len(qAcc) :
             i < j => CatalogIndex(qAcc[i]) < CatalogIndex(qAcc[j])

\* the last of three or more pages has just been read, and it is not full
C3_Witness ==
  \E r \in qResp :
    /\ qPage = CeilDiv(r.total, qLimit)
    /\ qPage >= 3
    /\ qLimit >= 2
    /\ Len(r.data) \in 1..(qLimit - 1)

\* C4: hasMore is true exactly when page * limit < total; a page that starts
\* at or after total has no data and hasMore = false.
C4_HasMoreIffPagesRemain ==
  \A r \in qResp :
    /\ r.hasMore <=> (r.page * r.limit < r.total)
    /\ (r.page - 1) * r.limit >= r.total => (r.data = << >> /\ ~r.hasMore)

\* a page past the end of a non-empty filtered set has been read
C4_Witness ==
  \E r \in qResp :
    /\ r.total > 0
    /\ (r.page - 1) * r.limit >= r.total
    /\ r.page * r.limit > r.total

(***************************************************************************)
(* Claims about the bookings of the store, checked under Spec.             *)
(***************************************************************************)
Bookings == mockUser.bookings

\* this step is the body of a call to op, run when its timer fired
Resolved(op) ==
  /\ DueIndex > 0
  /\ inflight[DueIndex].op = op
  /\ inflight' = Remove(inflight, DueIndex)
  /\ response' /= NoResponse

\* the same booking, whatever its status
SameButStatus(a, b) == [a EXCEPT !.status = b.status] = b

\* C5: createBooking validates participants >= 1: a call with participants < 1
\* fails and appends nothing, so no stored booking has participants < 1.
C5_ParticipantsValidated ==
  /\ \A i \in 1..Len(Bookings) : Bookings[i].participants >= 1
  /\ \A r \in response : r.op = "createBooking" => r.value.participants >= 1

\* C6: the totalPrice of every created booking, as returned and as stored, is
\* the price of the catalog listing it names times its participants.
C6_TotalPriceFromListing ==
  /\ \A i \in 1..Len(Bookings) :
       Bookings[i].totalPrice = PriceOf(Bookings[i].listingId) * Bookings[i].participants
  /\ \A r \in response : r.op = "createBooking" =>
       r.value.totalPrice = PriceOf(r.value.listingId) * r.value.participants

\* C7: the bookings of the user have pairwise distinct ids, also when calls
\* to createBooking overlap.
C7_BookingIdsDistinct ==
  \A i, j \in 1..Len(Bookings) : i /= j => Bookings[i].id /= Bookings[j].id

\* C8: the bookings are append-only: every step keeps the bookings there were,
\* in their places (at most their status changes); createBooking adds exactly
\* one booking at the end, cancelBooking adds and removes none, and
\* getBookings returns the bookings, which are in creation order.
C8_Step ==
  /\ Len(Bookings') >= Len(Bookings)
  /\ \A i \in 1..Len(Bookings) : SameButStatus(Bookings[i], Bookings'[i])
  /\ Resolved("createBooking") =>
       /\ Len(Bookings') = Len(Bookings) + 1
       /\ SubSeq(Bookings', 1, Len(Bookings)) = Bookings
       /\ Bookings'[Len(Bookings')] = Val(response').value
  /\ Resolved("cancelBooking") => Len(Bookings') = Len(Bookings)
  /\ Resolved("getBookings") =>
       /\ Val(response').value = Bookings
       /\ Bookings' = Bookings
  /\ \A i, j \in 1..Len(Bookings') :
       i < j => Bookings'[i].createdAt <= Bookings'[j].createdAt

C8_BookingsAppendOnly == [][C8_Step]_vars

\* two bookings were created and cancelBooking has just cancelled the first
C8_Witness ==
  /\ Len(Bookings) = 2
  /\ Bookings[1].status = "cancelled"
  /\ Bookings[2].status /= "cancelled"
  /\ Bookings[1].createdAt < Bookings[2].createdAt
  /\ \E r \in response : r.op = "cancelBooking"

\* C9: cancelBooking(id) leaves a confirmed booking with that id cancelled,
\* and a second cancelBooking(id) would change nothing.
C9_Step ==
  Resolved("cancelBooking") =>
    LET id == Val(inflight[DueIndex].bookingId)
    IN  /\ \A i \in 1..Len(Bookings) :
             (Bookings[i].id = id /\ Bookings[i].status = "confirmed")
               => Bookings'[i].status = "cancelled"
        /\ cancel(Bookings', id) = Bookings'

C9_CancelConfirmedIdempotent == [][C9_Step]_vars

\* C10: a booking's status changes only pending -> confirmed,
\* pending -> cancelled or confirmed -> cancelled, and a cancelled booking
\* stays cancelled.
AllowedTransitions ==
  { <<"pending", "confirmed">>, <<"pending", "cancelled">>,
    <<"confirmed", "cancelled">> }

C10_Step ==
  \A i \in 1..Len(Bookings) :
    /\ i <= Len(Bookings')
    /\ Bookings'[i].status /= Bookings[i].status
         => <<Bookings[i].status, Bookings'[i].status>> \in AllowedTransitions
    /\ Bookings[i].status = "cancelled" => Bookings'[i].status = "cancelled"

C10_StatusTransitions == [][C10_Step]_vars

\* cancelBooking has just run: a booking is cancelled while another, created
\* pending, is still pending
C10_Witness ==
  /\ \E r \in response : r.op = "cancelBooking"
  /\ \E i, j \in 1..Len(Bookings) :
       /\ Bookings[i].status = "cancelled"
       /\ Bookings[j].status = "pending"

\* C11: cancelBooking(id) with an id that matches no booking resolves without
\* error and leaves the whole store unchanged: the bookings, the wishlist, the
\* preferences and the catalog.
C11_Step ==
  (/\ Resolved("cancelBooking")
   /\ \A i \in 1..Len(Bookings) : Bookings[i].id /= Val(inflight[DueIndex].bookingId))
    => /\ mockUser' = mockUser
       /\ mockListings' = mockListings
       /\ \E r \in response' : r.op = "cancelBooking"

C11_CancelUnknownIsNoOp == [][C11_Step]_vars

\* cancelBooking has just run and no booking of the two there are is
\* cancelled: the id it was called with matched none of them
C11_Witness ==
  /\ \E r \in response : r.op = "cancelBooking"
  /\ Len(Bookings) = 2
  /\ \A i \in 1..Len(Bookings) : Bookings[i].status /= "cancelled"

(***************************************************************************)
(* Claims about a session, checked under SessionSpec.                      *)
(***************************************************************************)
\* C12: the totalPrice of a booking is frozen: every step (createBooking,
\* cancelBooking, a wishlist or preference update, a change of the listing's
\* price) leaves every booking in its place with the totalPrice it had.
C12_Step ==
  \A i \in 1..Len(Bookings) :
    /\ i <= Len(Bookings')
    /\ Bookings'[i].totalPrice = Bookings[i].totalPrice

C12_TotalPriceFrozen == [][C12_Step]_vars

\* the booking made before the session still has its total of 2 x 150 after
\* the price of its listing went to 200 and a booking for 3 at the new price
\* was created
C12_Witness ==
  /\ PriceOf("listing-3") = 200
  /\ Len(Bookings) = 2
  /\ Bookings[1].participants = 2
  /\ Bookings[1].totalPrice = 300
  /\ \E r \in response : r.op = "createBooking" /\ r.value.totalPrice = 600

(***************************************************************************)
(* Claims about the wishlist, checked under WishlistSpec.                  *)
(***************************************************************************)
Wishlist == mockUser.wishlist

\* the number of places of the array that hold x
Count(array, x) == Cardinality({i \in 1..Len(array) : array[i] = x})

\* C13: addToWishlist(id) is an idempotent insert: after a call the id is in
\* the wishlist exactly once, a call with an id already present leaves the
\* wishlist unchanged, and so a second call leaves it as the first did.
C13_Step ==
  Resolved("addToWishlist") =>
    LET id == Val(inflight[DueIndex].arg)
    IN  /\ Count(Wishlist', id) = 1
        /\ Count(Wishlist, id) > 0 => Wishlist' = Wishlist
        /\ addToWishlist(Wishlist', id) = Wishlist'

C13_AddIdempotent == [][C13_Step]_vars

\* addToWishlist("listing-3") has just run on a wishlist that held listing-3
\* already: had it pushed, listing-3 would be last
C13_Witness ==
  /\ \E r \in response : r.op = "addToWishlist" /\ r.arg = "listing-3"
  /\ Wishlist = <<"listing-3", "listing-1">>

\* C14: removeFromWishlist(id) is an idempotent removal: after a call the id
\* is not in the wishlist and the other ids are kept, in their order; a call
\* with an id that is absent resolves and leaves the wishlist unchanged.
C14_Step ==
  Resolved("removeFromWishlist") =>
    LET id == Val(inflight[DueIndex].arg)
    IN  /\ Count(Wishlist', id) = 0
        /\ Wishlist' = SelectSeq(Wishlist, LAMBDA other : other /= id)
        /\ Count(Wishlist, id) = 0 => Wishlist' = Wishlist
        /\ \E r \in response' : r.op = "removeFromWishlist"

C14_RemoveIdempotent == [][C14_Step]_vars

\* removeFromWishlist("listing-3") has just run and the two other ids are
\* there, in the order they were added
C14_Witness ==
  /\ \E r \in response : r.op = "removeFromWishlist" /\ r.arg = "listing-3"
  /\ Wishlist = <<"listing-99", "listing-1">>

\* C15: getWishlist returns exactly the catalog listings whose id is in the
\* wishlist, each once, in catalog order whatever the order the ids were
\* added in; addToWishlist stores an id the catalog does not have, and such
\* an id contributes no listing.
C15_Returned(value) ==
  /\ \A k \in 1..Len(value) :
       InCatalog(value[k]) /\ Count(Wishlist, value[k].id) > 0
  /\ \A i \in 1..Len(mockListings) :
       Count(Wishlist, mockListings[i].id) > 0
         => Count(value, mockListings[i]) = 1
  /\ \A k, l \in 1..Len(value) :
       k < l => CatalogIndex(value[k]) < CatalogIndex(value[l])

C15_WishlistInCatalogOrder ==
  \A r \in response :
    /\ r.op = "getWishlist" => C15_Returned(r.value)
    /\ r.op = "addToWishlist" => Count(Wishlist, r.arg) = 1

\* listing-3 was added first, then an id the catalog does not have, then
\* listing-1; getWishlist has just returned listing-1 before listing-3
C15_Witness ==
  /\ Wishlist = <<"listing-3", "listing-99", "listing-1">>
  /\ \E r \in response :
       /\ r.op = "getWishlist"
       /\ Len(r.value) = 2
       /\ r.value[1].id = "listing-1"
       /\ r.value[2].id = "listing-3"

(***************************************************************************)
(* Claims about the lookups, checked under SearchSpec.                     *)
(***************************************************************************)
\* two characters that are the same letter, in whatever case
SameLetter(c, d) ==
  \/ c = d
  \/ \E k \in 1..Len(UpperCase) : {c, d} = {UpperCase[k], LowerCase[k]}

\* two strings that differ at most in the case of their letters
EqualIgnoringCase(s, t) ==
  /\ Len(s) = Len(t)
  /\ \A i \in 1..Len(s) : SameLetter(s[i], t[i])

\* part occurs in text, the case of letters apart
OccursIgnoringCase(part, text) ==
  \E k \in 0..(Len(text) - Len(part)) :
    \A i \in 1..Len(part) : SameLetter(part[i], text[k + i])

\* C16: searchListings is case-insensitive: a query that differs from the one
\* searched for only in the case of its letters returns the identical list.
C16_SearchCaseInsensitive ==
  \A r \in response :
    r.op = "searchListings" =>
      \A query \in QueryArgs :
        EqualIgnoringCase(query, r.arg)
          => searchListings(mockListings, query) = r.value

\* the search for CAFÉ has just returned the three listings that the search
\* for café returns
C16_Witness ==
  \E r \in response :
    /\ r.op = "searchListings"
    /\ r.arg = <<"C", "A", "F", "É">>
    /\ Len(r.value) = 3
    /\ r.value = searchListings(mockListings, <<"c", "a", "f", "é">>)

\* C17: searchListings returns, unpaginated and in catalog order, exactly the
\* listings in whose title, titleFr, description or descriptionFr the query
\* occurs, the case of letters apart; the empty query returns the catalog.
C17_Matches(listing, query) ==
  \/ OccursIgnoringCase(query, listing.title)
  \/ OccursIgnoringCase(query, listing.titleFr)
  \/ OccursIgnoringCase(query, listing.description)
  \/ OccursIgnoringCase(query, listing.descriptionFr)

C17_SearchIsSubstringMatch ==
  \A r \in response :
    r.op = "searchListings" =>
      /\ r.value = SelectSeq(mockListings, LAMBDA l : C17_Matches(l, r.arg))
      /\ r.arg = << >> => r.value = mockListings

\* the search for Mer has just returned listing-1, which has it in its
\* descriptionFr, and listing-6, which has it in its titleFr
C17_Witness ==
  \E r \in response :
    /\ r.op = "searchListings"
    /\ r.arg = <<"M", "e", "r">>
    /\ Len(r.value) = 2
    /\ r.value[1].id = "listing-1"
    /\ r.value[2].id = "listing-6"

\* C18: getListing(id) returns the catalog listing that has the id when there
\* is one and null when there is none; it returns no listing of another id
\* and always resolves.
C18_GetListingByIdOrNull ==
  \A r \in response :
    r.op = "getListing" =>
      IF \E i \in 1..Len(mockListings) : mockListings[i].id = r.arg
      THEN \E l \in r.value :
             r.value = {l} /\ InCatalog(l) /\ l.id = r.arg
      ELSE r.value = Null

\* getListing has just returned null for an id the catalog does not have
C18_Witness ==
  \E r \in response :
    r.op = "getListing" /\ r.arg = "listing-99" /\ r.value = Null

(***************************************************************************)
(* Claims about every operation of the data layer, checked under           *)
(* SessionSpec.                                                            *)
(***************************************************************************)
\* this step belongs to the data layer: a call is made or the body of a call
\* is run (the steps that are not are the passing of time and the edits of
\* the catalog made outside)
DataLayerStep == inflight' /= inflight

\* C19: no operation of the data layer (getListings, getListing,
\* searchListings, getUser, the wishlist operations, the booking operations,
\* updateUserPreferences) changes the catalog.
C19_Step == DataLayerStep => mockListings' = mockListings

C19_CatalogUnchanged == [][C19_Step]_vars

\* with the user's wishlist, booking and preferences written to, a search
\* has just returned part of the catalog, and the catalog is the one the
\* session started with
C19_Witness ==
  /\ mockListings = Catalog
  /\ \E r \in response :
       r.op = "searchListings" /\ Len(r.value) \in 1..(Len(Catalog) - 1)
  /\ Wishlist = <<"listing-3", "listing-1", "listing-99">>

\* C20: updateUserPreferences(partial) merges: the keys of the argument take
\* the argument's values, the other keys keep the values they had, the
\* wishlist and the bookings are unchanged, and the user returned is the
\* updated user.
C20_Step ==
  Resolved("updateUserPreferences") =>
    LET partial == Val(inflight[DueIndex].arg)
        before  == mockUser.preferences
        after   == mockUser'.preferences
    IN  /\ DOMAIN after = (DOMAIN before) \cup (DOMAIN partial)
        /\ \A k \in DOMAIN partial : after[k] = partial[k]
        /\ \A k \in (DOMAIN before) \ (DOMAIN partial) : after[k] = before[k]
        /\ mockUser'.wishlist = mockUser.wishlist
        /\ mockUser'.bookings = mockUser.bookings
        /\ \E r \in response' : r.value = mockUser'

C20_PreferencesMerged == [][C20_Step]_vars

\* the theme was set to dark, and the update of the language alone has just
\* returned a user with both, and with the wishlist and the booking of before
C20_Witness ==
  /\ \E r \in response :
       /\ r.op = "updateUserPreferences"
       /\ r.arg = [language |-> "fr"]
       /\ r.value = mockUser
  /\ mockUser.preferences = [theme |-> "dark", language |-> "fr"]
  /\ Wishlist = <<"listing-3", "listing-1">>
  /\ Bookings = <<SeedBooking>>

(***************************************************************************)
(* Claims about the booking wizard, checked under ModalLiveSpec (C21) and  *)
(* ModalSpec.                                                              *)
(***************************************************************************)
\* a submission of the wizard is in flight: its payment, or its createBooking
Submitting ==
  \E i \in 1..Len(inflight) : inflight[i].op \in {"payment", "createBooking"}

\* C21: what has been issued resolves and has its effect on the store,
\* whatever the caller does meanwhile (there is no cancellation and no
\* timeout): the calls in flight all resolve, and a submission of the wizard
\* appends its booking, also when the modal is closed or the user goes back
\* while it is in flight.
C21_IssuedCallsComplete ==
  /\ (inflight /= << >>) ~> (inflight = << >>)
  /\ \A k \in 0..MaxBookings :
       (Submitting /\ Len(Bookings) = k) ~> (Len(Bookings) = k + 1)

\* createBooking has just appended a booking and the wizard went to step
\* success while the modal is closed: closing sets the step to form, so the
\* modal was closed while the submission was in flight
C21_Witness ==
  /\ \E r \in response : r.op = "createBooking"
  /\ Len(Bookings) = 1
  /\ ~modal.isOpen
  /\ modal.step = "success"

(***************************************************************************)
(* Claims about the profile page, checked under ProfileSpec.               *)
(***************************************************************************)
\* the calls of the page's load that are in flight
ProfileCalls ==
  {inflight[i].op : i \in {j \in 1..Len(inflight) :
                             inflight[j].arg = Some("ProfilePage")}}

\* C22: the load of the profile page is all-or-nothing: getUser and
\* getBookings are in flight together; while one of them is outstanding, and
\* when one of them has failed, user and bookings have their initial values;
\* they are set together, to what the two calls returned, when both have
\* succeeded; and isLoading is cleared when the load has succeeded or failed.
C22_ProfileLoadAllOrNothing ==
  LET both == IsDefined(profile.userData) /\ IsDefined(profile.userBookings)
      set  == ~profile.failed /\ both
  IN  /\ (profile.mounted /\ ~profile.failed /\ profile.userData = Undefined
            /\ profile.userBookings = Undefined)
           => ProfileCalls = {"getUser", "getBookings"}
      /\ ~set => profile.user = Null /\ profile.bookings = << >>
      /\ set => /\ profile.user = profile.userData
                /\ profile.bookings = Val(profile.userBookings)
      /\ profile.mounted => (profile.isLoading <=> ~(set \/ profile.failed))

\* getUser has succeeded and getBookings has just failed: the page shows no
\* user and none of the user's bookings, and it is not loading
C22_Witness ==
  /\ \E r \in response : r.op = "getBookings" /\ "error" \in DOMAIN r
  /\ IsDefined(profile.userData)
  /\ profile.user = Null
  /\ profile.bookings = << >>
  /\ ~profile.isLoading
  /\ Len(Bookings) > 0

(***************************************************************************)
(* Claims about the location filter, checked under QuerySpec.              *)
(***************************************************************************)
\* the distance in metres from the reference point of a location filter
DistanceFrom(loc, l) ==
  calculateDistance(loc.lat, loc.lng, l.location.lat, l.location.lng)

AtReferencePoint(loc, l) ==
  l.location.lat = loc.lat /\ l.location.lng = loc.lng

\* no filter but the location is specified
OnlyLocation(f) ==
  /\ IsDefined(f.location)
  /\ \A k \in {"category", "minPrice", "maxPrice", "minRating"} :
       f[k] = Undefined

\* C23: the distance between two points with identical coordinates is 0, so
\* the location filter keeps a listing located exactly at the reference
\* point for every radius >= 0 (0 included), and it keeps a listing only if
\* its distance to the reference point is <= radius.
C23_LocationFilterKeepsWithinRadius ==
  /\ \A i \in 1..Len(mockListings) :
       LET p == mockListings[i].location
       IN  calculateDistance(p.lat, p.lng, p.lat, p.lng) = 0
  /\ calculateDistance(CasablancaLat, CasablancaLng,
                       CasablancaLat, CasablancaLng) = 0
  /\ \A r \in qResp :
       (qFilters /= Undefined /\ IsDefined(Val(qFilters).location)) =>
         LET f == Val(qFilters)
             loc == Val(f.location)
             atPoint == SelectSeq(mockListings,
                                  LAMBDA l : AtReferencePoint(loc, l))
             within == SelectSeq(mockListings,
                         LAMBDA l : DistanceFrom(loc, l) <= loc.radius * 1000)
         IN  /\ loc.radius >= 0
             /\ \A i \in 1..Len(r.data) :
                  DistanceFrom(loc, r.data[i]) <= loc.radius * 1000
             /\ \A i \in 1..Len(atPoint) :
                  \E j \in 1..Len(ByLocation(mockListings, f)) :
                    ByLocation(mockListings, f)[j] = atPoint[i]
             /\ OnlyLocation(f) =>
                  /\ r.total = Len(within)
                  /\ IsPrefix(qAcc, within)
                  /\ r.total >= Len(atPoint)

\* radius 0 around the city centre, no other filter: the two listings located
\* at the centre, and no other, have been returned
C23_Witness ==
  \E r \in qResp :
    /\ qFilters /= Undefined
    /\ OnlyLocation(Val(qFilters))
    /\ Val(Val(qFilters).location).radius = 0
    /\ r.total = 2
    /\ Len(qAcc) = 2
    /\ \A i \in 1..2 : AtReferencePoint(Val(Val(qFilters).location), qAcc[i])

(***************************************************************************)
(* Claims about the bookings the wizard creates, checked under ModalSpec.  *)
(***************************************************************************)
\* the calls of the wizard's submissions in flight, as indices of inflight
SubmissionCalls(calls) ==
  {i \in 1..Len(calls) : calls[i].op \in {"payment", "createBooking"}}

CreateBookingCalls(calls) ==
  {i \in 1..Len(calls) : calls[i].op = "createBooking"}

\* this step runs what follows a timer of the wizard's submission that fired
SubmissionTimerFired(op) ==
  /\ DueIndex > 0
  /\ inflight[DueIndex].op = op
  /\ inflight[DueIndex].due <= now

\* C24: every booking created through the wizard is created with status
\* confirmed, and only after the payment step has completed: createBooking is
\* called only when the payment timer of the submission has fired, with a
\* booking whose status is confirmed; no step stores a pending booking or
\* changes the status of a stored one.
C24_Step ==
  /\ \A i \in 1..Len(Bookings') : Bookings'[i].status = "confirmed"
  /\ \A i \in SubmissionCalls(inflight') :
       Val(inflight'[i].booking).status = "confirmed"
  /\ Cardinality(CreateBookingCalls(inflight'))
       > Cardinality(CreateBookingCalls(inflight))
       => SubmissionTimerFired("payment")
  /\ Len(Bookings') > Len(Bookings) =>
       /\ SubmissionTimerFired("createBooking")
       /\ Bookings'[Len(Bookings')].status = "confirmed"
  /\ Len(Bookings') >= Len(Bookings)
  /\ \A i \in 1..Len(Bookings) : Bookings'[i] = Bookings[i]

C24_ConfirmedAfterPayment == [][C24_Step]_vars

\* the wizard shows success for a confirmed booking stored 3000 ms or more
\* after Pay was pressed
C24_Witness ==
  /\ \E r \in response :
       /\ r.op = "createBooking"
       /\ "value" \in DOMAIN r
       /\ r.value.status = "confirmed"
       /\ r.value.createdAt >= paymentDelay + createBookingDelay
  /\ modal.isOpen
  /\ modal.step = "success"
  /\ Len(Bookings) = 1

\* C25: the step becomes success only when a createBooking call issued by
\* the wizard has resolved and stored its booking; when the payment or
\* createBooking fails, the step is left as it is, no booking is added, and
\* isLoading is false again, so that Pay is enabled for a retry.
C25_Step ==
  /\ (modal'.step = "success" /\ modal.step /= "success") =>
       /\ SubmissionTimerFired("createBooking")
       /\ inflight[DueIndex].arg = Some("BookingModal")
       /\ Len(Bookings') = Len(Bookings) + 1
       /\ \E r \in response' : r.op = "createBooking" /\ "value" \in DOMAIN r
       /\ ~modal'.isLoading
  /\ (\E r \in response' : "error" \in DOMAIN r) =>
       /\ modal'.step = modal.step
       /\ modal'.step /= "success"
       /\ Bookings' = Bookings
       /\ ~modal'.isLoading
       /\ ~payDisabled(modal')
       /\ SubmissionCalls(inflight') = {}

C25_SuccessOnlyAfterCreateBooking == [][C25_Step]_vars

\* createBooking has just failed with the wizard at the payment step: no
\* booking is stored and Pay is enabled
C25_Witness ==
  /\ \E r \in response : r.op = "createBooking" /\ "error" \in DOMAIN r
  /\ modal.isOpen
  /\ modal.step = "payment"
  /\ ~modal.isLoading
  /\ Bookings = << >>

\* date is one of the listing's availability dates, time one of its slots
WellFormed(listing, b) ==
  /\ b.participants >= 1
  /\ \E i \in 1..Len(listing.availability) :
       /\ listing.availability[i].date = b.date
       /\ \E j \in 1..Len(listing.availability[i].slots) :
            listing.availability[i].slots[j] = b.time

\* C26: every booking created through the wizard is well formed with respect
\* to its listing (participants >= 1, date among the availability dates, time
\* among the slots of that date), after any sequence of gestures: the
\* participant count is never below 1, a chosen time is a slot of the chosen
\* date, and the payment step is entered only with a date and a time.
C26_WizardBookingsWellFormed ==
  /\ modal.form.participants >= 1
  /\ modal.form.time /= "" => WellFormed(ModalListing, modal.form)
  /\ modal.step = "payment" => WellFormed(ModalListing, modal.form)
  /\ \A i \in SubmissionCalls(inflight) :
       WellFormed(ModalListing, Val(inflight[i].booking))
  /\ \A i \in 1..Len(Bookings) : WellFormed(ModalListing, Bookings[i])

\* a booking for the second date, whose only slot is not a slot of the first
\* date, for two participants
C26_Witness ==
  /\ Len(Bookings) >= 1
  /\ Bookings[1].date = "2025-06-02"
  /\ Bookings[1].time = "18:00"
  /\ Bookings[1].participants = 2
  /\ Bookings[1].totalPrice = 2 * ModalListing.price

\* C27: the wizard never has more than one payment/createBooking in flight:
\* isLoading is true exactly while a submission is in flight, whatever the
\* step and whether the modal is open, and Pay is disabled then; so a
\* submission appends at most one booking.
C27_Step ==
  /\ Cardinality(SubmissionCalls(inflight')) <= 1
  /\ modal'.isLoading <=> SubmissionCalls(inflight') /= {}
  /\ SubmissionCalls(inflight') /= {} => payDisabled(modal')
  /\ Len(Bookings') <= Len(Bookings) + 1
  /\ Len(Bookings') = Len(Bookings) + 1 =>
       /\ SubmissionCalls(inflight) /= {}
       /\ SubmissionCalls(inflight') = {}

C27_OneSubmissionInFlight == [][C27_Step]_vars

\* a submission is in flight while the wizard, closed and reopened or taken
\* back to the form since, is at the payment step again with another date
C27_Witness ==
  /\ modal.isOpen
  /\ modal.step = "payment"
  /\ modal.isLoading
  /\ \E i \in SubmissionCalls(inflight) :
       Val(inflight[i].booking).date /= modal.form.date

(***************************************************************************)
(* Claims about the explore page, checked under ExploreSpec.               *)
(***************************************************************************)
\* the data of pages 1..page of getListings(filters, _, 12), concatenated
RECURSIVE PagesUpTo(_, _)
PagesUpTo(filters, page) ==
  IF page = 0 THEN << >>
  ELSE PagesUpTo(filters, page - 1)
         \o getListings(mockListings, Some(filters), page, PageSize).data

\* the result for the page's current filters, search query and page
ExpectedListings(page) ==
  IF trim(page.searchQuery) /= << >>
  THEN searchListings(mockListings, page.searchQuery)
  ELSE PagesUpTo(page.filters, page.page)

\* C28: once every load in flight has resolved, the listings the explore
\* page displays are the result for its current filters and search query
\* (pages 1..page of getListings concatenated, or the search result), with
\* no item twice.
C28_ExploreShowsCurrentResult ==
  (explore.mounted /\ inflight = << >>) =>
    /\ explore.listings = ExpectedListings(explore)
    /\ \A i, j \in 1..Len(explore.listings) :
         explore.listings[i] = explore.listings[j] => i = j
    /\ ~explore.isLoading /\ ~explore.isLoadingMore

(***************************************************************************)
(* Claims about the date filter, checked under QuerySpec.                  *)
(***************************************************************************)
\* the filters with the date filter replaced
WithDate(filters, date) ==
  IF filters = Undefined THEN filters
  ELSE Some([Val(filters) EXCEPT !.date = date])

\* the catalog with every availability emptied
WithoutAvailability(listings) ==
  [i \in 1..Len(listings) |-> [listings[i] EXCEPT !.availability = << >>]]

Ids(listings) == [i \in 1..Len(listings) |-> listings[i].id]

AvailableOn(l, date) ==
  \E i \in 1..Len(l.availability) : l.availability[i].date = date

\* C29: the result of getListings does not depend on filters.date: a call
\* that differs from the one made only in the date filter (undefined
\* included) returns the same data, total and hasMore, and the availability
\* of the listings is not consulted: the same listings are returned from a
\* catalog whose availabilities are empty.
C29_DateFilterIgnored ==
  \A r \in qResp :
    /\ \A date \in Dates :
         LET other == getListings(mockListings, WithDate(qFilters, date),
                                  qPage, qLimit)
         IN  /\ other.data = r.data
             /\ other.total = r.total
             /\ other.hasMore = r.hasMore
    /\ LET blind == getListings(WithoutAvailability(mockListings), qFilters,
                                qPage, qLimit)
       IN  /\ Ids(blind.data) = Ids(r.data)
           /\ blind.total = r.total
           /\ blind.hasMore = r.hasMore

\* a call with a date filter has returned a listing that is not available on
\* that date
C29_Witness ==
  \E r \in qResp :
    /\ qFilters /= Undefined
    /\ IsDefined(Val(qFilters).date)
    /\ \E i \in 1..Len(r.data) :
         ~AvailableOn(r.data[i], Val(Val(qFilters).date))

(***************************************************************************)
(* Claims about concurrent wishlist mutations, checked under WishlistSpec. *)
(***************************************************************************)
\* the id the call whose timer fires in this step was given
DueArg == Val(inflight[DueIndex].arg)

\* C30: wishlist mutations are atomic with respect to each other, however
\* the calls overlap (the removals of clear-all issued in parallel, two
\* simultaneous adds of one id): each call, when it completes, is applied to
\* the wishlist the calls completed before it have left, so no update is
\* lost: an id enters the wishlist only when an addToWishlist of that id
\* completes and leaves it only when a removeFromWishlist of that id
\* completes; the ids that stay keep their order, an id that is removed is
\* gone, and no id occurs twice.
C30_Step ==
  /\ \A x \in WishlistArgs :
       /\ (includes(Wishlist', x) /\ ~includes(Wishlist, x))
            => (Resolved("addToWishlist") /\ DueArg = x)
       /\ (~includes(Wishlist', x) /\ includes(Wishlist, x))
            => (Resolved("removeFromWishlist") /\ DueArg = x)
       /\ Count(Wishlist', x) <= 1
  /\ Resolved("addToWishlist") =>
       /\ includes(Wishlist', DueArg)
       /\ SelectSeq(Wishlist', LAMBDA x : x /= DueArg)
            = SelectSeq(Wishlist, LAMBDA x : x /= DueArg)
  /\ Resolved("removeFromWishlist") =>
       /\ ~includes(Wishlist', DueArg)
       /\ Wishlist' = SelectSeq(Wishlist, LAMBDA x : x /= DueArg)
  /\ (~Resolved("addToWishlist") /\ ~Resolved("removeFromWishlist"))
       => Wishlist' = Wishlist

C30_WishlistMutationsAtomic == [][C30_Step]_vars

\* two removals were issued in parallel on a wishlist of two ids: the first
\* has just completed, the second is due at the same instant, and the id it
\* is to remove is still there
C30_Witness ==
  /\ \E r \in response : r.op = "removeFromWishlist" /\ r.arg = "listing-1"
  /\ Wishlist = <<"listing-3">>
  /\ Len(inflight) = 1
  /\ inflight[1].op = "removeFromWishlist"
  /\ inflight[1].arg = Some("listing-3")
  /\ inflight[1].due = now

====
